---- MODULE Spec2Model ----
(***************************************************************************)
(* A model of scripts/report_generator.py: the loaders and their           *)
(* normalisation, the pandas join, the filters and the sequence of output  *)
(* effects of generate_report under the command-line boundary.             *)
(*                                                                         *)
(* Python strings are sequences of one-character strings, so that strip,   *)
(* lower, split and the pattern search are computed and not assumed.       *)
(* A function that may raise returns [ok |-> TRUE, val |-> v] or           *)
(* [ok |-> FALSE, err |-> "<exception class>"].                            *)
(***************************************************************************)
EXTENDS Integers, Sequences, FiniteSets, TLC

VARIABLES
    pc,              \* position of the run
    files,           \* the data directory: what each of the three files holds
    args,            \* course_filter, include_instructors, include_students, only_available
    courses,         \* List[Course] returned by load_courses
    users,           \* List[User] returned by load_users
    enrollments,     \* List[Enrollment] returned by load_enrollments
    courses_df,      \* the three frames of _build_dataframes
    users_df,
    enrollments_df,
    joined_df,       \* result of _join_frames
    filtered_df,     \* result of _apply_filters
    written,         \* what this run has put on disk: out_dir, csv, html, audit
    exc,             \* the exception in flight, "none" when there is none
    exit_code,       \* process exit status once the run has ended, -1 before
    printed,         \* what the boundary printed with typer.secho
    warnings,        \* number of logger.warning calls so far
    value,           \* the argument handed to the function called on its own
    result,          \* what it returned
    csv_df,          \* the frame generate_report hands to to_csv
    summary,         \* the summary handed to the template
    audit,           \* the audit record
    derived          \* per derived field: how often it was computed, and where

vars == <<pc, files, args, courses, users, enrollments, courses_df, users_df,
          enrollments_df, joined_df, filtered_df, written, exc, exit_code,
          printed, warnings, value, result, csv_df, summary, audit, derived>>

loadVars == <<courses, users, enrollments>>
frameVars == <<courses_df, users_df, enrollments_df>>
runVars == <<written, exc, exit_code, printed>>
coerceVars == <<value, result>>
reportVars == <<csv_df, summary, audit>>

(***************************************************************************)
(* Strings                                                                 *)
(***************************************************************************)
UpperChars == <<"A","B","C","D","E","F","G","H","I","J","K","L","M",
                "N","O","P","Q","R","S","T","U","V","W","X","Y","Z">>
LowerChars == <<"a","b","c","d","e","f","g","h","i","j","k","l","m",
                "n","o","p","q","r","s","t","u","v","w","x","y","z">>
WhitespaceChars == {" ", "\t", "\n"}

\* str.lower() on one character
LowerChar(c) ==
    IF \E i \in 1..Len(UpperChars) : UpperChars[i] = c
    THEN LowerChars[CHOOSE i \in 1..Len(UpperChars) : UpperChars[i] = c]
    ELSE c

\* str.lower()
Lower(s) == [i \in 1..Len(s) |-> LowerChar(s[i])]

RECURSIVE LStrip(_)
LStrip(s) ==
    IF s # <<>> /\ Head(s) \in WhitespaceChars THEN LStrip(Tail(s)) ELSE s

RECURSIVE RStrip(_)
RStrip(s) ==
    IF s # <<>> /\ s[Len(s)] \in WhitespaceChars
    THEN RStrip(SubSeq(s, 1, Len(s) - 1))
    ELSE s

\* str.strip()
Strip(s) == RStrip(LStrip(s))

\* "needle in s" for Python strings: a literal contiguous substring
IsSubstring(needle, s) ==
    \E i \in 0..(Len(s) - Len(needle)) :
        \A j \in 1..Len(needle) : s[i + j] = needle[j]

(***************************************************************************)
(* JSON values as json.load returns them                                   *)
(***************************************************************************)
JNull == [t |-> "null"]
JBool(b) == [t |-> "bool", v |-> b]
JNum(n) == [t |-> "num", v |-> n]
JStr(s) == [t |-> "str", v |-> s]
JArr(a) == [t |-> "arr", v |-> a]
JObj(f) == [t |-> "obj", v |-> f]

Ok(v) == [ok |-> TRUE, val |-> v]
Raise(e) == [ok |-> FALSE, err |-> e]

\* Python truthiness of a JSON value, as "x or {}" tests it
Truthy(x) ==
    CASE x.t = "null" -> FALSE
      [] x.t = "bool" -> x.v
      [] x.t = "num"  -> x.v # 0
      [] x.t = "str"  -> x.v # <<>>
      [] x.t = "arr"  -> x.v # <<>>
      [] x.t = "obj"  -> DOMAIN x.v # {}

\* dict.get(key), None when the key is absent
Get(obj, key) == IF key \in DOMAIN obj THEN obj[key] ELSE JNull

(***************************************************************************)
(* _coerce_available_to_bool                                               *)
(***************************************************************************)
TrueWords == { <<"y","e","s">>, <<"t","r","u","e">>, <<"y">>, <<"1">> }
FalseWords == { <<"n","o">>, <<"f","a","l","s","e">>, <<"n">>, <<"0">> }

CoerceNumbersByTruth(x) ==
    IF x.t = "str" /\ Lower(Strip(x.v)) \in TrueWords THEN TRUE
    ELSE IF x.t = "str" /\ Lower(Strip(x.v)) \in FalseWords THEN FALSE
    ELSE IF x.t = "bool" THEN x.v
    ELSE IF x.t = "num" THEN x.v # 0
    ELSE FALSE

_coerce_available_to_bool(x) ==
    IF x.t = "str" /\ Lower(Strip(x.v)) \in TrueWords THEN TRUE
    ELSE IF x.t = "str" /\ Lower(Strip(x.v)) \in FalseWords THEN FALSE
    ELSE IF x.t = "bool" THEN x.v
    ELSE FALSE

(***************************************************************************)
(* Pydantic models.  A validator with mode="before" strips a str and       *)
(* leaves anything else alone; a str field then accepts only a str.        *)
(***************************************************************************)
EmptyDict == [k \in {} |-> JNull]

\* the "_strip" validators
StripBefore(x) == IF x.t = "str" THEN JStr(Strip(x.v)) ELSE x

\* a required field annotated str, after its "_strip" validator
StrFieldOk(d, key) == key \in DOMAIN d /\ StripBefore(d[key]).t = "str"
StrField(d, key) == StripBefore(d[key]).v

\* description: Optional[str] = None
OptStrFieldOk(d, key) ==
    key \notin DOMAIN d \/ StripBefore(d[key]).t \in {"str", "null"}
OptStrField(d, key) == IF key \in DOMAIN d THEN StripBefore(d[key]) ELSE JNull

\* availability: AvailabilityBool
AvailabilityOk(d) ==
    /\ "availability" \in DOMAIN d
    /\ d["availability"].t = "obj"
    /\ "available" \in DOMAIN d["availability"].v
    /\ d["availability"].v["available"].t = "bool"
AvailabilityBool(d) == [available |-> d["availability"].v["available"].v]

AtSign == "@"

\* Contact._strip_and_validate_email
EmailOk(x) ==
    /\ StripBefore(x).t = "str"
    /\ \E i \in 1..Len(StripBefore(x).v) : StripBefore(x).v[i] = AtSign

ContactOk(d) ==
    /\ "contact" \in DOMAIN d
    /\ d["contact"].t = "obj"
    /\ "email" \in DOMAIN d["contact"].v
    /\ EmailOk(d["contact"].v["email"])
Contact(d) == [email |-> StripBefore(d["contact"].v["email"]).v]

UserNameOk(d) ==
    /\ "name" \in DOMAIN d
    /\ d["name"].t = "obj"
    /\ StrFieldOk(d["name"].v, "given")
    /\ StrFieldOk(d["name"].v, "family")
UserName(d) == [given |-> StrField(d["name"].v, "given"),
                family |-> StrField(d["name"].v, "family")]

\* Course(**d)
Course(d) ==
    IF /\ StrFieldOk(d, "id") /\ StrFieldOk(d, "courseId") /\ StrFieldOk(d, "name")
       /\ OptStrFieldOk(d, "description") /\ AvailabilityOk(d)
    THEN Ok([id |-> StrField(d, "id"),
             courseId |-> StrField(d, "courseId"),
             name |-> StrField(d, "name"),
             description |-> OptStrField(d, "description"),
             availability |-> AvailabilityBool(d)])
    ELSE Raise("ValidationError")

\* User(**d)
User(d) ==
    IF /\ StrFieldOk(d, "id") /\ StrFieldOk(d, "userName")
       /\ UserNameOk(d) /\ ContactOk(d) /\ AvailabilityOk(d)
    THEN Ok([id |-> StrField(d, "id"),
             userName |-> StrField(d, "userName"),
             name |-> UserName(d),
             contact |-> Contact(d),
             availability |-> AvailabilityBool(d)])
    ELSE Raise("ValidationError")

ALLOWED_ROLES == {
    <<"I","n","s","t","r","u","c","t","o","r">>,
    <<"T","e","a","c","h","i","n","g","A","s","s","i","s","t","a","n","t">>,
    <<"S","t","u","d","e","n","t">>,
    <<"G","r","a","d","e","r">>,
    <<"O","b","s","e","r","v","e","r">> }

WarnUnknownRoleBeforeStrip(d) ==
    IF StrFieldOk(d, "role") /\ d["role"].v \notin ALLOWED_ROLES THEN 1 ELSE 0

\* Enrollment._warn_unknown_role runs once the role has validated as a str,
\* whatever the other fields do; 1 when it calls logger.warning
WarnUnknownRole(d) ==
    IF StrFieldOk(d, "role") /\ StrField(d, "role") \notin ALLOWED_ROLES THEN 1 ELSE 0

\* Enrollment(**d)
Enrollment(d) ==
    IF /\ StrFieldOk(d, "id") /\ StrFieldOk(d, "userId") /\ StrFieldOk(d, "courseId")
       /\ StrFieldOk(d, "role") /\ AvailabilityOk(d)
    THEN Ok([id |-> StrField(d, "id"),
             userId |-> StrField(d, "userId"),
             courseId |-> StrField(d, "courseId"),
             role |-> StrField(d, "role"),
             availability |-> AvailabilityBool(d)])
    ELSE Raise("ValidationError")

(***************************************************************************)
(* Loading.  A file is absent, is not JSON, or holds a JSON value.         *)
(***************************************************************************)
Absent == [k |-> "absent"]
Malformed == [k |-> "malformed"]
Holds(j) == [k |-> "json", v |-> j]
Unread == [k |-> "unread"]

\* _read_json_array
_read_json_array(file) ==
    CASE file.k = "absent"    -> Raise("FileNotFoundError")
      [] file.k = "malformed" -> Raise("JSONDecodeError")
      [] file.k = "json" /\ file.v.t # "arr" -> Raise("ValueError")
      [] file.k = "json" /\ file.v.t = "arr" -> Ok(file.v.v)

\* dict(item): a mapping is copied, an empty str or list gives {}, a str of
\* characters is a sequence of elements of length 1, the rest is not iterable
DictOf(item) ==
    CASE item.t = "obj" -> Ok(item.v)
      [] item.t = "str" /\ item.v = <<>> -> Ok(EmptyDict)
      [] item.t = "str" /\ item.v # <<>> -> Raise("ValueError")
      [] item.t = "arr" /\ item.v = <<>> -> Ok(EmptyDict)
      [] item.t \in {"null", "bool", "num"} -> Raise("TypeError")

\* (item_copy.get("availability") or {}).get("available")
AvailOf(d) ==
    LET a == Get(d, "availability")
        holder == IF Truthy(a) THEN a ELSE JObj(EmptyDict)
    IN  IF holder.t = "obj" THEN Ok(Get(holder.v, "available"))
        ELSE Raise("AttributeError")

\* one turn of the normalising loop of load_courses, load_users, load_enrollments
NormalizeItem(item) ==
    IF ~DictOf(item).ok THEN DictOf(item)
    ELSE IF ~AvailOf(DictOf(item).val).ok THEN AvailOf(DictOf(item).val)
    ELSE Ok(("availability" :>
                JObj([available |-> JBool(_coerce_available_to_bool(
                                              AvailOf(DictOf(item).val).val))]))
            @@ DictOf(item).val)

\* the first exception a sequence of results holds, or all of their values
Collect(rs) ==
    IF \E i \in 1..Len(rs) : ~rs[i].ok
    THEN rs[CHOOSE i \in 1..Len(rs) : ~rs[i].ok /\ \A j \in 1..(i - 1) : rs[j].ok]
    ELSE Ok([i \in 1..Len(rs) |-> rs[i].val])

\* the normalising loop runs over the whole array before any model is built
Normalize(raw) == Collect([i \in 1..Len(raw) |-> NormalizeItem(raw[i])])

\* the model class each loader builds
Model(kind, d) ==
    CASE kind = "courses"     -> Course(d)
      [] kind = "users"       -> User(d)
      [] kind = "enrollments" -> Enrollment(d)

\* load_courses, load_users, load_enrollments share this shape
Load(file, kind) ==
    IF ~_read_json_array(file).ok THEN _read_json_array(file)
    ELSE IF ~Normalize(_read_json_array(file).val).ok
         THEN Normalize(_read_json_array(file).val)
    ELSE LET n == Normalize(_read_json_array(file).val).val
         IN  Collect([i \in 1..Len(n) |-> Model(kind, n[i])])

load_courses(file) == Load(file, "courses")
load_users(file) == Load(file, "users")
load_enrollments(file) == Load(file, "enrollments")

\* the logger.warning calls of load_enrollments: the comprehension stops at
\* the first item that fails validation
LoadWarnings(file) ==
    IF ~_read_json_array(file).ok \/ ~Normalize(_read_json_array(file).val).ok THEN 0
    ELSE LET n == Normalize(_read_json_array(file).val).val
             built == [i \in 1..Len(n) |-> Enrollment(n[i])]
             last == IF \E i \in 1..Len(n) : ~built[i].ok
                     THEN CHOOSE i \in 1..Len(n) :
                              ~built[i].ok /\ \A j \in 1..(i - 1) : built[j].ok
                     ELSE Len(n)
             RECURSIVE Sum(_)
             Sum(i) == IF i = 0 THEN 0 ELSE WarnUnknownRole(n[i]) + Sum(i - 1)
         IN  Sum(last)

(***************************************************************************)
(* DataFrames: the column labels in order and the rows in order; a row is  *)
(* a function from column label to value, with its index label under idx.  *)
(***************************************************************************)
DataFrame(columns, rows) ==
    [columns |-> IF rows = <<>> THEN <<>> ELSE columns,
     rows |-> [i \in 1..Len(rows) |-> ("idx" :> (i - 1)) @@ rows[i]]]

\* DataFrame.empty
Empty(df) == df.rows = <<>> \/ df.columns = <<>>

HasColumn(df, col) == \E i \in 1..Len(df.columns) : df.columns[i] = col

Hyphen == "-"

\* c.courseId.split("-")[-1] if "-" in c.courseId else ""
RECURSIVE AfterLastHyphen(_)
AfterLastHyphen(s) ==
    IF \E i \in 1..Len(s) : s[i] = Hyphen
    THEN AfterLastHyphen(SubSeq(s, 1 + (CHOOSE i \in 1..Len(s) : s[i] = Hyphen /\
                                           \A j \in 1..(i - 1) : s[j] # Hyphen), Len(s)))
    ELSE s

Term(courseId) ==
    IF \E i \in 1..Len(courseId) : courseId[i] = Hyphen
    THEN AfterLastHyphen(courseId)
    ELSE <<>>

CourseColumns == <<"courseInternalId", "courseId", "courseName", "term", "courseAvailable">>
UserColumns == <<"userId", "userName", "given", "family", "email", "userAvailable">>
EnrollmentColumns ==
    <<"enrollmentId", "userId", "courseInternalId", "role", "enrollmentAvailable">>

CoursesFrameTermDeferred(cs) ==
    DataFrame(CourseColumns,
        [i \in 1..Len(cs) |->
            [courseInternalId |-> cs[i].id,
             courseId |-> cs[i].courseId,
             courseName |-> cs[i].name,
             term |-> <<>>,
             courseAvailable |-> cs[i].availability.available]])

\* _build_dataframes
CoursesFrame(cs) ==
    DataFrame(CourseColumns,
        [i \in 1..Len(cs) |->
            [courseInternalId |-> cs[i].id,
             courseId |-> cs[i].courseId,
             courseName |-> cs[i].name,
             term |-> Term(cs[i].courseId),
             courseAvailable |-> cs[i].availability.available]])

UsersFrame(us) ==
    DataFrame(UserColumns,
        [i \in 1..Len(us) |->
            [userId |-> us[i].id,
             userName |-> us[i].userName,
             given |-> us[i].name.given,
             family |-> us[i].name.family,
             email |-> us[i].contact.email,
             userAvailable |-> us[i].availability.available]])

EnrollmentsFrame(es) ==
    DataFrame(EnrollmentColumns,
        [i \in 1..Len(es) |->
            [enrollmentId |-> es[i].id,
             userId |-> es[i].userId,
             courseInternalId |-> es[i].courseId,
             role |-> es[i].role,
             enrollmentAvailable |-> es[i].availability.available]])

\* the loop of _join_frames that gives an empty frame its columns
EnsureColumns(df, cols) ==
    [df EXCEPT !.columns = @ \o SelectSeq(cols, LAMBDA c : ~HasColumn(df, c))]

MatchesFirstOnly(l, R, key) ==
    LET m == SelectSeq(R, LAMBDA r : r[key] = l[key])
    IN  IF m = <<>> THEN <<>> ELSE << l @@ m[1] >>

MatchesOrFill(l, R, key) ==
    LET m == SelectSeq(R, LAMBDA r : r[key] = l[key])
    IN  IF m = <<>> /\ R # <<>> THEN << l @@ R[1] >>
        ELSE [i \in 1..Len(m) |-> l @@ m[i]]

\* the rows a left row makes with the right rows of equal key, in right order
Matches(l, R, key) ==
    LET m == SelectSeq(R, LAMBDA r : r[key] = l[key])
    IN  [i \in 1..Len(m) |-> l @@ m[i]]

RECURSIVE MergeRows(_, _, _)
MergeRows(L, R, key) ==
    IF L = <<>> THEN <<>>
    ELSE Matches(Head(L), R, key) \o MergeRows(Tail(L), R, key)

\* left.merge(right, on=key, how="inner"): the left rows in order, each with
\* every right row of equal key; a fresh RangeIndex; KeyError without the key
Merge(left, right, key) ==
    IF ~HasColumn(left, key) \/ ~HasColumn(right, key) THEN Raise("KeyError")
    ELSE LET rows == MergeRows(left.rows, right.rows, key)
         IN  Ok([columns |-> left.columns \o SelectSeq(right.columns, LAMBDA c : c # key),
                 rows |-> [i \in 1..Len(rows) |-> ("idx" :> (i - 1)) @@ rows[i]]])

Space == " "
\* " \u2013 ": a space, an en dash (one character, written "U+2013"), a space
LabelSeparator == <<" ", "U+2013", " ">>

\* the derived fields of _join_frames
Derive(df) ==
    [columns |-> df.columns \o <<"userFullName", "courseLabel">>,
     rows |-> [i \in 1..Len(df.rows) |->
                 ("userFullName" :> Strip(df.rows[i].given \o <<Space>> \o df.rows[i].family))
                 @@ ("courseLabel" :> (df.rows[i].courseId \o LabelSeparator
                                       \o df.rows[i].courseName))
                 @@ df.rows[i]]]

\* the three frames as _join_frames leaves them: it adds the columns in place
FramesAfterJoin(cdf, udf, edf) ==
    IF Empty(cdf) \/ Empty(udf) \/ Empty(edf)
    THEN [c |-> EnsureColumns(cdf, CourseColumns),
          u |-> EnsureColumns(udf, UserColumns),
          e |-> EnsureColumns(edf, EnrollmentColumns)]
    ELSE [c |-> cdf, u |-> udf, e |-> edf]

\* _join_frames
_join_frames(cdf, udf, edf) ==
    LET f == FramesAfterJoin(cdf, udf, edf)
        first == Merge(f.e, f.u, "userId")
        second == Merge(first.val, f.c, "courseInternalId")
    IN  IF ~first.ok THEN first
        ELSE IF ~second.ok THEN second
        ELSE Ok(Derive(second.val))

(***************************************************************************)
(* Series.str.contains(pat, na=False): regex=True is the default, so pat   *)
(* is compiled with re.compile and searched with pattern.search.  The      *)
(* patterns of this model are made of literal characters, "." (any         *)
(* character but a newline) and "(" (which, never closed, does not         *)
(* compile).                                                               *)
(***************************************************************************)
Dot == "."
OpenParen == "("
Newline == "\n"

\* re.compile(pat) succeeds
Compiles(pat) == \A j \in 1..Len(pat) : pat[j] # OpenParen

\* one pattern character against one subject character
CharMatches(p, c) == IF p = Dot THEN c # Newline ELSE p = c

\* re.compile(pat).search(s) is not None, for a pattern that compiles
RegexSearch(pat, s) ==
    \E i \in 0..(Len(s) - Len(pat)) :
        \A j \in 1..Len(pat) : CharMatches(pat[j], s[i + j])

Student == <<"s","t","u","d","e","n","t">>

(***************************************************************************)
(* _apply_filters, a step at a time                                        *)
(***************************************************************************)
AvailabilityStepIgnoresUser(df, only_available) ==
    IF only_available /\ ~Empty(df)
    THEN [df EXCEPT !.rows = SelectSeq(@, LAMBDA r :
              r.courseAvailable /\ r.enrollmentAvailable)]
    ELSE df

\* lines 289-293
AvailabilityStep(df, only_available) ==
    IF only_available /\ ~Empty(df)
    THEN [df EXCEPT !.rows = SelectSeq(@, LAMBDA r :
              r.courseAvailable /\ r.userAvailable /\ r.enrollmentAvailable)]
    ELSE df

\* lines 295-301
CourseStep(df, course_filter) ==
    IF ~Truthy(course_filter) THEN Ok(df)
    ELSE LET needle == Lower(course_filter.v)
         IN  IF ~Compiles(needle) THEN Raise("re.error")
             ELSE Ok([df EXCEPT !.rows = SelectSeq(@, LAMBDA r :
                          \/ RegexSearch(needle, Lower(r.courseId))
                          \/ RegexSearch(needle, Lower(r.courseName)))])

RoleStepCaseSensitive(df, include_instructors, include_students) ==
    IF ~(include_instructors /\ include_students)
    THEN [df EXCEPT !.rows = SelectSeq(@, LAMBDA r :
              \/ include_students /\ r.role = Student
              \/ include_instructors /\ r.role # Student)]
    ELSE df

\* lines 303-312
RoleStep(df, include_instructors, include_students) ==
    IF ~(include_instructors /\ include_students)
    THEN [df EXCEPT !.rows = SelectSeq(@, LAMBDA r :
              \/ include_students /\ Lower(r.role) = Student
              \/ include_instructors /\ ~(Lower(r.role) = Student))]
    ELSE df

ApplyFiltersRoleOnJoined(joined, course_filter, include_instructors, include_students, only_available) ==
    LET c == CourseStep(AvailabilityStep(joined, only_available), course_filter)
    IN  IF ~c.ok THEN c
        ELSE IF include_instructors /\ include_students THEN c
        ELSE Ok(RoleStep(joined, include_instructors, include_students))

\* _apply_filters
_apply_filters(joined, course_filter, include_instructors, include_students, only_available) ==
    LET c == CourseStep(AvailabilityStep(joined, only_available), course_filter)
    IN  IF ~c.ok THEN c
        ELSE Ok(RoleStep(c.val, include_instructors, include_students))

(***************************************************************************)
(* Exceptions and the command-line boundary                                *)
(***************************************************************************)
NoExc == [type |-> "none", at |-> "none"]

\* the classes an exception class derives from, itself included
Mro(type) ==
    CASE type = "FileNotFoundError" -> {"FileNotFoundError", "OSError", "Exception"}
      [] type = "JSONDecodeError"   -> {"JSONDecodeError", "ValueError", "Exception"}
      [] type = "ValidationError"   -> {"ValidationError", "ValueError", "Exception"}
      [] type = "ValueError"        -> {"ValueError", "Exception"}
      [] type = "TypeError"         -> {"TypeError", "Exception"}
      [] type = "AttributeError"    -> {"AttributeError", "Exception"}
      [] type = "KeyError"          -> {"KeyError", "LookupError", "Exception"}
      [] type = "re.error"          -> {"re.error", "Exception"}
      [] type = "PermissionError"   -> {"PermissionError", "OSError", "Exception"}
      [] type = "TemplateNotFound"  ->
            {"TemplateNotFound", "OSError", "LookupError", "TemplateError", "Exception"}

\* except (FileNotFoundError, ValidationError, ValueError) in main and generate
Caught == {"FileNotFoundError", "ValidationError", "ValueError"}

(***************************************************************************)
(* Bounds and the inputs drawn within them                                 *)
(***************************************************************************)
MaxItems == 1       \* elements of a JSON array read from a file
MaxEntities == 2    \* courses, users, enrollments handed to the join
MaxRows == 2        \* enrollments behind the joined rows handed to the filters
MaxPad == 1         \* whitespace characters on each side of a coerced string

\* the sequences over S of length at most n
RECURSIVE SeqsUpTo(_, _)
SeqsUpTo(S, n) ==
    IF n = 0 THEN { <<>> }
    ELSE SeqsUpTo(S, n - 1) \cup
         { Append(q, x) : q \in { p \in SeqsUpTo(S, n - 1) : Len(p) = n - 1 }, x \in S }

s_c1 == <<"c","1">>
s_c2 == <<"c","2">>
s_u1 == <<"u","1">>
s_u2 == <<"u","2">>
s_Student == <<"S","t","u","d","e","n","t">>
s_STUDENT == <<"S","T","U","D","E","N","T">>
s_Instructor == <<"I","n","s","t","r","u","c","t","o","r">>
s_SuperRole == <<"S","u","p","e","r","R","o","l","e">>
s_Yes == <<"Y","e","s">>
s_No == <<"N","o">>

Avail(x) == JObj([available |-> x])

EmptyFrame == [columns |-> <<>>, rows |-> <<>>]
NothingWritten == [dir |-> FALSE, csv |-> "absent", html |-> "absent", audit |-> "absent"]
DefaultArgs == [course_filter |-> JNull, include_instructors |-> TRUE,
                include_students |-> TRUE, only_available |-> FALSE]

(***************************************************************************)
(* The coercion on its own: SpecCoerce                                     *)
(***************************************************************************)
UpperChar(c) ==
    IF \E i \in 1..Len(LowerChars) : LowerChars[i] = c
    THEN UpperChars[CHOOSE i \in 1..Len(LowerChars) : LowerChars[i] = c]
    ELSE c

\* a word as written, capitalised, and in capitals
Casings(w) ==
    { w,
      [i \in 1..Len(w) |-> IF i = 1 THEN UpperChar(w[i]) ELSE w[i]],
      [i \in 1..Len(w) |-> UpperChar(w[i])] }

\* l spaces, the word, r tabs
Pad(w, l, r) == [i \in 1..l |-> " "] \o w \o [i \in 1..r |-> "\t"]

CoerceWords ==
    TrueWords \cup FalseWords \cup
    { <<>>, <<"m","a","y","b","e">>, <<"y","e","s","s">>, <<"o","n">>, <<"2">>,
      <<"y"," ","e","s">>, <<"n","o","n","e">> }

CoerceInputs ==
    { JStr(Pad(c, l, r)) : c \in UNION { Casings(w) : w \in CoerceWords },
                           l \in 0..MaxPad, r \in 0..MaxPad }
    \cup { JNull, JBool(TRUE), JBool(FALSE), JNum(0), JNum(1), JNum(2),
           JObj(EmptyDict), JArr(<<>>), Avail(JBool(TRUE)) }

\* nothing computed yet
NoFrame == [computed |-> FALSE]
NoSummary == [computed |-> FALSE]
NoAudit == [computed |-> FALSE]
NotComputed == [n |-> 0, at |-> "nowhere"]
NothingDerived ==
    [term |-> NotComputed, userFullName |-> NotComputed, courseLabel |-> NotComputed]

IdleReport ==
    /\ csv_df = NoFrame /\ summary = NoSummary /\ audit = NoAudit
    /\ derived = NothingDerived

IdlePipeline ==
    /\ files = [courses |-> Unread, users |-> Unread, enrollments |-> Unread]
    /\ args = DefaultArgs
    /\ courses = <<>> /\ users = <<>> /\ enrollments = <<>>
    /\ courses_df = EmptyFrame /\ users_df = EmptyFrame /\ enrollments_df = EmptyFrame
    /\ joined_df = EmptyFrame /\ filtered_df = EmptyFrame
    /\ written = NothingWritten
    /\ exc = NoExc /\ exit_code = -1 /\ printed = "none"
    /\ warnings = 0
    /\ IdleReport

InitCoerce ==
    /\ pc = "coerce"
    /\ value \in CoerceInputs
    /\ result = "unset"
    /\ IdlePipeline

\* a call of _coerce_available_to_bool
Coerce ==
    /\ pc = "coerce"
    /\ result' = _coerce_available_to_bool(value)
    /\ pc' = "coerced"
    /\ UNCHANGED <<files, args, loadVars, frameVars, joined_df, filtered_df,
                   runVars, warnings, value, reportVars, derived>>

NextCoerce == Coerce

SpecCoerce == InitCoerce /\ [][NextCoerce]_vars

\* the trimmed lowercase form of a str argument
Trimmed(x) == Lower(Strip(x.v))

\* C6: the coercion returns a boolean for every value; it returns true exactly
\* for the boolean true and for a string whose trimmed lowercase form is yes,
\* true, y or 1, and false for everything else: the boolean false, the strings
\* no, false, n, 0, any other string, null, numbers.
C6_CoercionTotalConservative ==
    pc = "coerced" =>
        /\ result \in BOOLEAN
        /\ result = TRUE <=>
              \/ value = JBool(TRUE)
              \/ value.t = "str" /\ Trimmed(value) \in
                    { <<"y","e","s">>, <<"t","r","u","e">>, <<"y">>, <<"1">> }
        /\ (value.t = "str" /\ Trimmed(value) \in
                    { <<"n","o">>, <<"f","a","l","s","e">>, <<"n">>, <<"0">> })
              => result = FALSE
        /\ value.t \in {"null", "num", "obj", "arr"} => result = FALSE
        /\ value = JBool(FALSE) => result = FALSE

\* a padded, capitalised "true" has been coerced to true
C6_Witness ==
    /\ pc = "coerced"
    /\ value = JStr(<<" ", "T","r","u","e", "\t">>)
    /\ result = TRUE

(***************************************************************************)
(* generate_report, a step at a time.  A step that raises leaves the       *)
(* exception in exc and the run at "raised", for the boundary to handle.   *)
(***************************************************************************)
Raised(type, at) == [type |-> type, at |-> at]

\* a derived field evaluated once for each of the records, in the function
\* named; nothing is evaluated when there is no record
ComputedPerRecord(records, at) ==
    IF records = <<>> THEN NotComputed ELSE [n |-> Len(records), at |-> at]

\* line 373
BuildDataframes ==
    /\ pc = "build"
    /\ courses_df' = CoursesFrame(courses)
    /\ users_df' = UsersFrame(users)
    /\ enrollments_df' = EnrollmentsFrame(enrollments)
    /\ derived' = [derived EXCEPT !.term = ComputedPerRecord(courses, "_build_dataframes")]
    /\ pc' = "join"
    /\ UNCHANGED <<files, args, loadVars, joined_df, filtered_df, runVars,
                   warnings, coerceVars, reportVars>>

\* line 374
JoinFrames ==
    /\ pc = "join"
    /\ LET r == _join_frames(courses_df, users_df, enrollments_df)
           f == FramesAfterJoin(courses_df, users_df, enrollments_df)
       IN  /\ courses_df' = f.c /\ users_df' = f.u /\ enrollments_df' = f.e
           /\ IF r.ok
              THEN /\ joined_df' = r.val /\ pc' = "filter" /\ exc' = exc
                   /\ derived' = [derived EXCEPT
                          !.userFullName = ComputedPerRecord(r.val.rows, "_join_frames"),
                          !.courseLabel = ComputedPerRecord(r.val.rows, "_join_frames")]
              ELSE /\ joined_df' = joined_df /\ pc' = "raised"
                   /\ exc' = Raised(r.err, "_join_frames")
                   /\ derived' = derived
    /\ UNCHANGED <<files, args, loadVars, filtered_df, written, exit_code, printed,
                   warnings, coerceVars, reportVars>>

\* lines 375-377
ApplyFilters ==
    /\ pc = "filter"
    /\ LET r == _apply_filters(joined_df, args.course_filter, args.include_instructors,
                               args.include_students, args.only_available)
       IN  IF r.ok
           THEN filtered_df' = r.val /\ pc' = "mkdir" /\ exc' = exc
           ELSE filtered_df' = filtered_df /\ pc' = "raised"
                /\ exc' = Raised(r.err, "_apply_filters")
    /\ UNCHANGED <<files, args, loadVars, frameVars, joined_df, written, exit_code,
                   printed, warnings, coerceVars, reportVars, derived>>

(***************************************************************************)
(* The join on its own: SpecJoin                                           *)
(***************************************************************************)
CourseA == [id |-> s_c1, courseId |-> <<"C","S","1","-","F","A">>,
            name |-> <<"I","n","t","r","o">>, description |-> JNull,
            availability |-> [available |-> TRUE]]
CourseB == [id |-> s_c1, courseId |-> <<"H","I","2","-","F","A">>,
            name |-> <<"H","i","s","t">>, description |-> JNull,
            availability |-> [available |-> FALSE]]
CourseC == [id |-> s_c2, courseId |-> <<"M","3">>,
            name |-> <<"A","d","v"," ","C","S">>, description |-> JNull,
            availability |-> [available |-> TRUE]]

UserA == [id |-> s_u1, userName |-> <<"j","d">>,
          name |-> [given |-> <<"J","o">>, family |-> <<"D","o","e">>],
          contact |-> [email |-> <<"j","@","x">>],
          availability |-> [available |-> TRUE]]
UserB == [id |-> s_u1, userName |-> <<"j","r">>,
          name |-> [given |-> <<>>, family |-> <<"R","o","e">>],
          contact |-> [email |-> <<"r","@","x">>],
          availability |-> [available |-> FALSE]]
UserC == [id |-> s_u2, userName |-> <<"a","b">>,
          name |-> [given |-> <<"A","l">>, family |-> <<"B","o">>],
          contact |-> [email |-> <<"a","@","x">>],
          availability |-> [available |-> FALSE]]

EnrollmentOf(id, userId, courseId, role, available) ==
    [id |-> id, userId |-> userId, courseId |-> courseId, role |-> role,
     availability |-> [available |-> available]]

JoinCourses == {CourseA, CourseB, CourseC}
JoinUsers == {UserA, UserB}
JoinEnrollments ==
    { EnrollmentOf(<<"e","1">>, s_u1, s_c1, s_Student, TRUE),
      EnrollmentOf(<<"e","2">>, s_u2, s_c1, s_Instructor, TRUE),
      EnrollmentOf(<<"e","3">>, s_u1, s_c2, s_Student, FALSE) }

IdleRun == written = NothingWritten /\ exc = NoExc /\ exit_code = -1 /\ printed = "none"
IdleCoerce == value = JNull /\ result = "unset"

InitJoin ==
    /\ pc = "build"
    /\ files = [courses |-> Unread, users |-> Unread, enrollments |-> Unread]
    /\ args = DefaultArgs
    /\ courses \in SeqsUpTo(JoinCourses, MaxEntities)
    /\ users \in SeqsUpTo(JoinUsers, MaxEntities)
    /\ enrollments \in SeqsUpTo(JoinEnrollments, MaxEntities)
    /\ courses_df = EmptyFrame /\ users_df = EmptyFrame /\ enrollments_df = EmptyFrame
    /\ joined_df = EmptyFrame /\ filtered_df = EmptyFrame
    /\ warnings = 0
    /\ IdleRun /\ IdleCoerce /\ IdleReport

NextJoin == BuildDataframes \/ JoinFrames

SpecJoin == InitJoin /\ [][NextJoin]_vars

\* the Users and the Courses an enrollment's keys resolve to, in input order
UsersOf(e) == SelectSeq(users, LAMBDA u : u.id = e.userId)
CoursesOf(e) == SelectSeq(courses, LAMBDA c : c.id = e.courseId)

\* the joined rows that come from enrollment e
RowsOf(e) ==
    SelectSeq(joined_df.rows, LAMBDA r :
        /\ r.enrollmentId = e.id /\ r.userId = e.userId
        /\ r.courseInternalId = e.courseId)

Joined == pc = "filter"

\* C1: every row the join produces has the userId of some input User and the
\* courseInternalId of some input Course, and carries that User's and that
\* Course's fields; an enrollment whose userId or courseId matches no input
\* entity produces no row, and the join raises nothing.
C1_JoinReferentialIntegrity ==
    /\ pc # "raised" /\ exc = NoExc
    /\ Joined =>
        /\ \A i \in 1..Len(joined_df.rows) :
              LET r == joined_df.rows[i]
              IN  /\ \E j \in 1..Len(users) :
                        /\ users[j].id = r.userId
                        /\ users[j].userName = r.userName
                        /\ users[j].contact.email = r.email
                  /\ \E j \in 1..Len(courses) :
                        /\ courses[j].id = r.courseInternalId
                        /\ courses[j].courseId = r.courseId
                        /\ courses[j].name = r.courseName
        /\ \A i \in 1..Len(enrollments) :
              (UsersOf(enrollments[i]) = <<>> \/ CoursesOf(enrollments[i]) = <<>>)
                  => RowsOf(enrollments[i]) = <<>>

\* a join in which one enrollment resolved and another, whose user is not among
\* the Users, was dropped
C1_Witness ==
    /\ Joined
    /\ Len(joined_df.rows) = 1
    /\ Len(enrollments) = 2
    /\ \E i \in 1..2 : UsersOf(enrollments[i]) = <<>> /\ CoursesOf(enrollments[i]) # <<>>

\* C2 as stated: each enrollment yields at most one joined row, built from the
\* first User and the first Course with the matching id, so the joined rows
\* are never more than the enrollments.
C2_FirstMatchWins ==
    Joined =>
        /\ Len(joined_df.rows) <= Len(enrollments)
        /\ \A i \in 1..Len(joined_df.rows) :
              LET r == joined_df.rows[i]
                  first == CHOOSE j \in 1..Len(users) :
                               /\ users[j].id = r.userId
                               /\ \A k \in 1..(j - 1) : users[k].id # r.userId
              IN  users[first].userName = r.userName

RECURSIVE PairCount(_)
PairCount(es) ==
    IF es = <<>> THEN 0
    ELSE Len(UsersOf(Head(es))) * Len(CoursesOf(Head(es))) + PairCount(Tail(es))

UniqueIds(xs) == \A i, j \in 1..Len(xs) : xs[i].id = xs[j].id => i = j

\* C2 as amended: the join keeps every match.  Each enrollment yields one row
\* for every pair of a User and a Course with the matching ids, so the joined
\* rows number the sum over the enrollments of (matching Users) x (matching
\* Courses); when no two Users and no two Courses share an id, each enrollment
\* yields at most one row and the rows are never more than the enrollments.
C2_EveryMatchJoined ==
    Joined =>
        /\ Len(joined_df.rows) = PairCount(enrollments)
        /\ \A i \in 1..Len(enrollments) :
              \A j \in 1..Len(users), k \in 1..Len(courses) :
                  (users[j].id = enrollments[i].userId /\ courses[k].id = enrollments[i].courseId)
                  => \E n \in 1..Len(joined_df.rows) :
                        LET r == joined_df.rows[n]
                        IN  /\ r.enrollmentId = enrollments[i].id
                            /\ r.userName = users[j].userName
                            /\ r.courseId = courses[k].courseId
        /\ (UniqueIds(users) /\ UniqueIds(courses)) =>
              /\ Len(joined_df.rows) <= Len(enrollments)
              /\ \A i \in 1..Len(enrollments) :
                    UniqueIds(enrollments) => Len(RowsOf(enrollments[i])) <= 1

\* one enrollment, two Users and two Courses sharing its ids: four joined rows
C2_Witness ==
    /\ Joined
    /\ Len(enrollments) = 1
    /\ Len(UsersOf(enrollments[1])) = 2
    /\ Len(CoursesOf(enrollments[1])) = 2
    /\ Len(joined_df.rows) = 4

(***************************************************************************)
(* The filters on their own: SpecFilter.  The joined rows are those of     *)
(* _join_frames over three courses, two users and the drawn enrollments.   *)
(***************************************************************************)
s_c3 == <<"c","3">>
s_student == <<"s","t","u","d","e","n","t">>

FilterCourses == << CourseA, [CourseB EXCEPT !.id = s_c2], [CourseC EXCEPT !.id = s_c3] >>
FilterUsers == << UserA, UserC >>
FilterEnrollments ==
    { EnrollmentOf(<<"e","1">>, s_u1, s_c1, s_Student, TRUE),
      EnrollmentOf(<<"e","2">>, s_u1, s_c1, s_Instructor, TRUE),
      EnrollmentOf(<<"e","3">>, s_u2, s_c2, s_STUDENT, FALSE),
      EnrollmentOf(<<"e","4">>, s_u1, s_c3, s_SuperRole, TRUE),
      EnrollmentOf(<<"e","5">>, s_u2, s_c1, s_Student, TRUE),
      EnrollmentOf(<<"e","6">>, s_u1, s_c1, s_student, FALSE),
      EnrollmentOf(<<"e","7">>, s_u1, s_c2, s_Instructor, TRUE) }

CourseFilters ==
    { JNull, JStr(<<>>), JStr(<<"C","S">>), JStr(<<"s","1">>), JStr(<<"c",".","1">>),
      JStr(<<"h","i","s","t">>), JStr(<<"(">>) }

FilterArgs ==
    [course_filter : CourseFilters, include_instructors : BOOLEAN,
     include_students : BOOLEAN, only_available : BOOLEAN]

InitFilter ==
    /\ pc = "filter"
    /\ files = [courses |-> Unread, users |-> Unread, enrollments |-> Unread]
    /\ args \in FilterArgs
    /\ courses = FilterCourses
    /\ users = FilterUsers
    /\ enrollments \in SeqsUpTo(FilterEnrollments, MaxRows)
    /\ LET c == CoursesFrame(courses)
           u == UsersFrame(users)
           e == EnrollmentsFrame(enrollments)
       IN  /\ courses_df = FramesAfterJoin(c, u, e).c
           /\ users_df = FramesAfterJoin(c, u, e).u
           /\ enrollments_df = FramesAfterJoin(c, u, e).e
           /\ joined_df = _join_frames(c, u, e).val
    /\ filtered_df = EmptyFrame
    /\ warnings = 0
    /\ IdleRun /\ IdleCoerce /\ IdleReport

NextFilter == ApplyFilters

SpecFilter == InitFilter /\ [][NextFilter]_vars

Filtered == pc = "mkdir"

\* the index labels of a frame's rows, in row order
Labels(df) == [i \in 1..Len(df.rows) |-> df.rows[i].idx]

JoinedRow(n) == joined_df.rows[n + 1]

IsStudent(role) == Lower(role) = <<"s","t","u","d","e","n","t">>

\* the rows that reach the role step
BeforeRoleStep ==
    CourseStep(AvailabilityStep(joined_df, args.only_available), args.course_filter).val

\* C7: for every combination of the two flags and every role, the role step
\* keeps a row iff (include_students and the role is "student" whatever its
\* case) or (include_instructors and it is not); with both flags true it keeps
\* every row, which is what the OR keeps, and with both false it keeps none.
C7_RoleStep ==
    Filtered =>
        /\ Labels(filtered_df) =
              SelectSeq(Labels(BeforeRoleStep), LAMBDA n :
                  \/ args.include_students /\ IsStudent(JoinedRow(n).role)
                  \/ args.include_instructors /\ ~IsStudent(JoinedRow(n).role))
        /\ (args.include_instructors /\ args.include_students)
              => Labels(filtered_df) = Labels(BeforeRoleStep)
        /\ (~args.include_instructors /\ ~args.include_students)
              => filtered_df.rows = <<>>

\* students only: a row whose role is STUDENT is kept beside a dropped Instructor
C7_Witness ==
    /\ Filtered
    /\ args.include_students /\ ~args.include_instructors
    /\ Len(BeforeRoleStep.rows) = 2
    /\ Len(filtered_df.rows) = 1
    /\ filtered_df.rows[1].role = s_STUDENT

\* C8 as stated: for every non-empty course_filter, whatever its characters,
\* the course step keeps a row iff the lowercased filter is a literal
\* substring of the lowercased courseId or courseName; an absent or empty
\* filter removes nothing.
C8_LiteralSubstring ==
    (Filtered /\ ~args.only_available /\ args.include_instructors /\ args.include_students)
        => Labels(filtered_df) =
              SelectSeq(Labels(joined_df), LAMBDA n :
                  \/ args.course_filter \in {JNull, JStr(<<>>)}
                  \/ IsSubstring(Lower(args.course_filter.v), Lower(JoinedRow(n).courseId))
                  \/ IsSubstring(Lower(args.course_filter.v), Lower(JoinedRow(n).courseName)))

AllAvailable(r) == r.courseAvailable /\ r.userAvailable /\ r.enrollmentAvailable

KeptByAvailability ==
    { r.idx : r \in { _apply_filters(joined_df, JNull, TRUE, TRUE,
                                     args.only_available).val.rows[i] :
                      i \in 1..Len(_apply_filters(joined_df, JNull, TRUE, TRUE,
                                                  args.only_available).val.rows) } }
KeptByCourse ==
    { r.idx : r \in { _apply_filters(joined_df, args.course_filter, TRUE, TRUE,
                                     FALSE).val.rows[i] :
                      i \in 1..Len(_apply_filters(joined_df, args.course_filter, TRUE, TRUE,
                                                  FALSE).val.rows) } }
KeptByRole ==
    { r.idx : r \in { _apply_filters(joined_df, JNull, args.include_instructors,
                                     args.include_students, FALSE).val.rows[i] :
                      i \in 1..Len(_apply_filters(joined_df, JNull, args.include_instructors,
                                                  args.include_students, FALSE).val.rows) } }

\* C10: the result of _apply_filters is exactly the joined rows, in their
\* original relative order, that the availability filter alone, the course
\* filter alone and the role filter alone each keep; it is what the three
\* steps give in the order availability, course, role, and a subsequence of
\* the input.
C10_FiltersComposeAsAnd ==
    Filtered =>
        /\ filtered_df.rows =
              SelectSeq(joined_df.rows, LAMBDA r :
                  r.idx \in KeptByAvailability \cap KeptByCourse \cap KeptByRole)
        /\ filtered_df =
              RoleStep(CourseStep(AvailabilityStep(joined_df, args.only_available),
                                  args.course_filter).val,
                       args.include_instructors, args.include_students)
        /\ \A i, j \in 1..Len(filtered_df.rows) :
              i < j => filtered_df.rows[i].idx < filtered_df.rows[j].idx

\* all three categories active, each alone keeping a different row set, and one
\* row surviving all three
C10_Witness ==
    /\ Filtered
    /\ args.only_available /\ Truthy(args.course_filter) /\ ~args.include_instructors
    /\ Len(joined_df.rows) = 2
    /\ Len(filtered_df.rows) = 1
    /\ KeptByAvailability # KeptByRole
    /\ KeptByCourse = {0, 1}

(***************************************************************************)
(* A whole run under the command-line boundary: Spec.  Each loader reads   *)
(* its file when it runs; what the file holds is drawn then.               *)
(***************************************************************************)
RawCourse(id, courseId, name, availability) ==
    JObj([id |-> JStr(id), courseId |-> JStr(courseId), name |-> JStr(name),
          availability |-> availability])

RawUser(id, email, availability) ==
    JObj([id |-> JStr(id), userName |-> JStr(<<"j","d">>),
          name |-> JObj([given |-> JStr(<<"J","o"," ">>), family |-> JStr(<<"D","o","e">>)]),
          contact |-> JObj([email |-> JStr(email)]),
          availability |-> availability])

RawEnrollment(id, userId, courseId, role, availability) ==
    JObj([id |-> JStr(id), userId |-> JStr(userId), courseId |-> JStr(courseId),
          role |-> JStr(role), availability |-> availability])

CourseItems ==
    { RawCourse(<<" ","c","1">>, <<"C","S","1","-","F","A">>, <<"I","n","t","r","o">>,
                Avail(JStr(s_Yes))),
      JObj([id |-> JStr(s_c2), courseId |-> JStr(<<"M","3">>), name |-> JStr(<<"M","a","t","h">>)]),
      JObj([id |-> JStr(s_c1), courseId |-> JStr(<<"M","3">>)]),
      RawCourse(s_c1, <<"M","3">>, <<"M","a","t","h">>, JStr(s_Yes)),
      JNum(5),
      JStr(<<"a","b">>) }

UserItems ==
    { RawUser(s_u1, <<"j","@","x">>, Avail(JBool(TRUE))),
      RawUser(s_u1, <<"j","x">>, Avail(JBool(TRUE))),
      RawUser(s_u1, <<"j","@","x">>, JNum(1)),
      JNull }

EnrollmentItems ==
    { RawEnrollment(<<"e","1">>, s_u1, s_c1, s_Student, Avail(JStr(<<"y","e","s">>))),
      RawEnrollment(<<"e","2">>, s_u1, <<"c","1"," ">>, s_SuperRole, Avail(JBool(FALSE))),
      JObj([id |-> JStr(<<"e","3">>), userId |-> JStr(s_u1), courseId |-> JStr(s_c1)]),
      RawEnrollment(<<"e","4">>, s_u1, s_c1, s_Student, JStr(s_No)) }

\* what a data file can hold: nothing, text that is not JSON, a JSON object,
\* an array of items
FilesOf(items) ==
    { Absent, Malformed, Holds(JObj(EmptyDict)) }
    \cup { Holds(JArr(a)) : a \in SeqsUpTo(items, MaxItems) }

RunArgs ==
    [course_filter : {JNull, JStr(<<"c","s">>), JStr(<<"(">>)},
     include_instructors : BOOLEAN, include_students : BOOLEAN, only_available : BOOLEAN]

Init ==
    /\ pc = "load_courses"
    /\ files = [courses |-> Unread, users |-> Unread, enrollments |-> Unread]
    /\ args \in RunArgs
    /\ courses = <<>> /\ users = <<>> /\ enrollments = <<>>
    /\ courses_df = EmptyFrame /\ users_df = EmptyFrame /\ enrollments_df = EmptyFrame
    /\ joined_df = EmptyFrame /\ filtered_df = EmptyFrame
    /\ warnings = 0
    /\ IdleRun /\ IdleCoerce /\ IdleReport

LoadCoursesAfterMkdir ==
    /\ pc = "load_courses"
    /\ \E f \in FilesOf(CourseItems) :
          /\ files' = [files EXCEPT !.courses = f]
          /\ IF load_courses(f).ok
             THEN courses' = load_courses(f).val /\ pc' = "load_users" /\ exc' = exc
             ELSE courses' = courses /\ pc' = "raised"
                  /\ exc' = Raised(load_courses(f).err, "load_courses")
    /\ written' = [written EXCEPT !.dir = TRUE]
    /\ UNCHANGED <<args, users, enrollments, frameVars, joined_df, filtered_df,
                   exit_code, printed, warnings, coerceVars, reportVars, derived>>

\* line 368
LoadCourses ==
    /\ pc = "load_courses"
    /\ \E f \in FilesOf(CourseItems) :
          /\ files' = [files EXCEPT !.courses = f]
          /\ IF load_courses(f).ok
             THEN courses' = load_courses(f).val /\ pc' = "load_users" /\ exc' = exc
             ELSE courses' = courses /\ pc' = "raised"
                  /\ exc' = Raised(load_courses(f).err, "load_courses")
    /\ UNCHANGED <<args, users, enrollments, frameVars, joined_df, filtered_df,
                   written, exit_code, printed, warnings, coerceVars, reportVars, derived>>

\* line 369
LoadUsers ==
    /\ pc = "load_users"
    /\ \E f \in FilesOf(UserItems) :
          /\ files' = [files EXCEPT !.users = f]
          /\ IF load_users(f).ok
             THEN users' = load_users(f).val /\ pc' = "load_enrollments" /\ exc' = exc
             ELSE users' = users /\ pc' = "raised"
                  /\ exc' = Raised(load_users(f).err, "load_users")
    /\ UNCHANGED <<args, courses, enrollments, frameVars, joined_df, filtered_df,
                   written, exit_code, printed, warnings, coerceVars, reportVars, derived>>

\* line 370
LoadEnrollments ==
    /\ pc = "load_enrollments"
    /\ \E f \in FilesOf(EnrollmentItems) :
          /\ files' = [files EXCEPT !.enrollments = f]
          /\ warnings' = warnings + LoadWarnings(f)
          /\ IF load_enrollments(f).ok
             THEN enrollments' = load_enrollments(f).val /\ pc' = "build" /\ exc' = exc
             ELSE enrollments' = enrollments /\ pc' = "raised"
                  /\ exc' = Raised(load_enrollments(f).err, "load_enrollments")
    /\ UNCHANGED <<args, courses, users, frameVars, joined_df, filtered_df,
                   written, exit_code, printed, coerceVars, reportVars, derived>>

(***************************************************************************)
(* The outputs of generate_report                                          *)
(***************************************************************************)
csv_columns ==
    <<"courseInternalId", "courseId", "courseName", "term", "userId", "userName",
      "userFullName", "email", "role", "enrollmentAvailable", "userAvailable",
      "courseAvailable">>

\* "Yes" if bool(value) else "No"
yes_no(v) == IF v = TRUE THEN s_Yes ELSE s_No

\* a row cut down to the columns named; it keeps its index label
SelectColumns(r, cols) ==
    [c \in { cols[j] : j \in 1..Len(cols) } \cup {"idx"} |-> r[c]]

PrepareCsvPassesEmptyThrough(df) ==
    IF ~Empty(df)
    THEN IF \A j \in 1..Len(csv_columns) : HasColumn(df, csv_columns[j])
         THEN Ok([columns |-> csv_columns,
                  rows |-> [i \in 1..Len(df.rows) |-> SelectColumns(df.rows[i], csv_columns)]])
         ELSE Raise("KeyError")
    ELSE Ok(df)

\* df.loc[:, csv_columns].copy() if not df.empty else pd.DataFrame(columns=csv_columns)
_prepare_csv(df) ==
    IF ~Empty(df)
    THEN IF \A j \in 1..Len(csv_columns) : HasColumn(df, csv_columns[j])
         THEN Ok([columns |-> csv_columns,
                  rows |-> [i \in 1..Len(df.rows) |-> SelectColumns(df.rows[i], csv_columns)]])
         ELSE Raise("KeyError")
    ELSE Ok([columns |-> csv_columns, rows |-> <<>>])

MappedColumns == {"enrollmentAvailable", "userAvailable", "courseAvailable"}

\* lines 385-387: csv_df[col] = csv_df[col].map(yes_no) for each of the three
\* columns the frame has
MapYesNo(df) ==
    [columns |-> df.columns,
     rows |-> [i \in 1..Len(df.rows) |->
                 [c \in DOMAIN df.rows[i] |->
                     IF c \in MappedColumns /\ HasColumn(df, c)
                     THEN yes_no(df.rows[i][c])
                     ELSE df.rows[i][c]]]]

\* df.to_csv(path, index=False): the header line, then a record for each row
\* with the values in column order and without the index label
to_csv(df) ==
    [header |-> df.columns,
     records |-> [i \in 1..Len(df.rows) |->
                    [j \in 1..Len(df.columns) |-> df.rows[i][df.columns[j]]]]]

\* Series.nunique()
nunique(df, col) == Cardinality({ df.rows[i][col] : i \in 1..Len(df.rows) })

SummaryCountsRows(df) ==
    [courses |-> IF ~Empty(df) THEN Len(df.rows) ELSE 0,
     users |-> IF ~Empty(df) THEN Len(df.rows) ELSE 0,
     enrollments |-> Len(df.rows)]

\* lines 405-409
Summary(df) ==
    [courses |-> IF ~Empty(df) THEN nunique(df, "courseInternalId") ELSE 0,
     users |-> IF ~Empty(df) THEN nunique(df, "userId") ELSE 0,
     enrollments |-> Len(df.rows)]

\* lines 416-444, without the timestamp and the two directory names
Audit(a, cs, us, es, csv, sm) ==
    [args |-> a,
     input_sizes |-> [courses |-> Len(cs), users |-> Len(us), enrollments |-> Len(es)],
     output_sizes |-> [csv_rows |-> Len(csv.rows),
                       unique_courses |-> sm.courses,
                       unique_users |-> sm.users],
     filters |-> [only_available |-> a.only_available,
                  course_filter |-> a.course_filter,
                  roles_included |-> [instructors |-> a.include_instructors,
                                      students |-> a.include_students]]]

\* line 380: out_dir.mkdir(parents=True, exist_ok=True)
Mkdir ==
    /\ pc = "mkdir"
    /\ \E outcome \in {"ok", "fails"} :
          IF outcome = "ok"
          THEN written' = [written EXCEPT !.dir = TRUE] /\ pc' = "csv" /\ exc' = exc
          ELSE written' = written /\ pc' = "raised"
               /\ exc' = Raised("PermissionError", "mkdir")
    /\ UNCHANGED <<files, args, loadVars, frameVars, joined_df, filtered_df,
                   exit_code, printed, warnings, coerceVars, reportVars, derived>>

\* what a write that fails can leave of its file
FailedWrite == {"absent", "partial"}

\* lines 383-390: _prepare_csv, the Yes/No mapping, csv_df.to_csv(csv_path,
\* index=False)
WriteCsv ==
    /\ pc = "csv"
    /\ LET p == _prepare_csv(filtered_df)
       IN  IF ~p.ok
           THEN /\ csv_df' = csv_df /\ written' = written
                /\ pc' = "raised" /\ exc' = Raised(p.err, "_prepare_csv")
           ELSE /\ csv_df' = MapYesNo(p.val)
                /\ \E outcome \in {"complete"} \cup FailedWrite :
                      /\ written' = [written EXCEPT !.csv = outcome]
                      /\ IF outcome = "complete"
                         THEN pc' = "render" /\ exc' = exc
                         ELSE pc' = "raised" /\ exc' = Raised("PermissionError", "to_csv")
    /\ UNCHANGED <<files, args, loadVars, frameVars, joined_df, filtered_df,
                   exit_code, printed, warnings, coerceVars, summary, audit, derived>>

\* lines 393-411: the summary, then _render_html; env.get_template raises
\* TemplateNotFound when templates/report.html.j2 is not there
RenderHtml ==
    /\ pc = "render"
    /\ summary' = Summary(filtered_df)
    /\ \E outcome \in {"ok", "fails"} :
          IF outcome = "ok"
          THEN pc' = "html" /\ exc' = exc
          ELSE pc' = "raised" /\ exc' = Raised("TemplateNotFound", "_render_html")
    /\ UNCHANGED <<files, args, loadVars, frameVars, joined_df, filtered_df,
                   written, exit_code, printed, warnings, coerceVars, csv_df, audit,
                   derived>>

\* lines 412-413: html_path.write_text
WriteHtml ==
    /\ pc = "html"
    /\ \E outcome \in {"complete"} \cup FailedWrite :
          /\ written' = [written EXCEPT !.html = outcome]
          /\ IF outcome = "complete"
             THEN pc' = "audit" /\ exc' = exc
             ELSE pc' = "raised" /\ exc' = Raised("PermissionError", "html write_text")
    /\ UNCHANGED <<files, args, loadVars, frameVars, joined_df, filtered_df,
                   exit_code, printed, warnings, coerceVars, reportVars, derived>>

\* lines 416-448: audit_path.write_text, then the return
WriteAudit ==
    /\ pc = "audit"
    /\ audit' = Audit(args, courses, users, enrollments, csv_df, summary)
    /\ \E outcome \in {"complete"} \cup FailedWrite :
          /\ written' = [written EXCEPT !.audit = outcome]
          /\ IF outcome = "complete"
             THEN pc' = "returned" /\ exc' = exc
             ELSE pc' = "raised" /\ exc' = Raised("PermissionError", "audit write_text")
    /\ UNCHANGED <<files, args, loadVars, frameVars, joined_df, filtered_df,
                   exit_code, printed, warnings, coerceVars, csv_df, summary, derived>>

\* lines 490-502 (main) and 535-547 (generate): the try around generate_report.
\* An exception of a caught class is printed and the exit status is 1; any
\* other leaves the function, and the interpreter ends with a traceback and
\* status 1.
Boundary ==
    /\ pc \in {"returned", "raised"}
    /\ pc' = "exit"
    /\ IF pc = "returned"
       THEN printed' = "wrote" /\ exit_code' = 0
       ELSE IF Mro(exc.type) \cap Caught # {}
       THEN printed' = "message" /\ exit_code' = 1
       ELSE printed' = "traceback" /\ exit_code' = 1
    /\ UNCHANGED <<files, args, loadVars, frameVars, joined_df, filtered_df,
                   written, exc, warnings, coerceVars, reportVars, derived>>

Next ==
    \/ LoadCourses \/ LoadUsers \/ LoadEnrollments
    \/ BuildDataframes \/ JoinFrames \/ ApplyFilters
    \/ Mkdir \/ WriteCsv \/ RenderHtml \/ WriteHtml \/ WriteAudit
    \/ Boundary

Spec == Init /\ [][Next]_vars

Ended == pc = "exit"
LoadSteps == {"load_courses", "load_users", "load_enrollments"}
OutputFiles == {"csv", "html", "audit"}

\* C3 as stated: output is all-or-nothing.  When a run that failed at any step
\* has ended, either all three of the CSV, the HTML and the audit file have
\* been written by it, or none of them has (a file a failed write left
\* incomplete counts as not written).
C3_AllOrNothing ==
    (Ended /\ exc # NoExc) =>
        \/ \A f \in OutputFiles : written[f] = "complete"
        \/ \A f \in OutputFiles : written[f] # "complete"

\* C4: loading is fail-fast and precedes every output effect.  While a load
\* is pending or has failed, the output directory has not been created and no
\* output file has been written, and the load that failed has returned no
\* entity; whatever is on disk was put there after all three loads succeeded.
C4_LoadBeforeOutput ==
    /\ (pc \in LoadSteps \/ exc.at \in LoadSteps) => written = NothingWritten
    /\ exc.at = "load_courses" => courses = <<>> /\ users = <<>> /\ enrollments = <<>>
    /\ exc.at = "load_users" => users = <<>> /\ enrollments = <<>>
    /\ exc.at = "load_enrollments" => enrollments = <<>>
    /\ written # NothingWritten =>
          /\ load_courses(files.courses).ok
          /\ load_users(files.users).ok
          /\ load_enrollments(files.enrollments).ok

\* a run that loaded courses and users, failed on an enrollment without a
\* role, and ended with nothing on disk
C4_Witness ==
    /\ Ended
    /\ exc = Raised("ValidationError", "load_enrollments")
    /\ courses # <<>> /\ users # <<>> /\ enrollments = <<>>
    /\ files.enrollments.v.v # <<>>
    /\ written = NothingWritten

\* C5 as stated: the boundary turns every fatal load or validation failure
\* into exit status 1 with the error message printed, exits with status 0 when
\* generate_report succeeds, and lets no load or validation failure escape it
\* as an uncaught exception.
C5_BoundaryCatchesLoadFailures ==
    Ended =>
        /\ exc.at \in LoadSteps => exit_code = 1 /\ printed = "message"
        /\ exc = NoExc => exit_code = 0

(***************************************************************************)
(* The outputs on their own: SpecReport.  generate_report from the loaded  *)
(* models on: three courses and two users or none of them, the drawn       *)
(* enrollments, and filters that keep all, some or none of the joined rows.*)
(***************************************************************************)
ReportArgs ==
    [course_filter : {JNull, JStr(<<"h","i","s","t">>)}, include_instructors : {TRUE},
     include_students : BOOLEAN, only_available : BOOLEAN]

InitReport ==
    /\ pc = "build"
    /\ files = [courses |-> Unread, users |-> Unread, enrollments |-> Unread]
    /\ args \in ReportArgs
    /\ courses \in {<<>>, FilterCourses}
    /\ users \in {<<>>, FilterUsers}
    /\ enrollments \in SeqsUpTo(FilterEnrollments, MaxRows)
    /\ courses_df = EmptyFrame /\ users_df = EmptyFrame /\ enrollments_df = EmptyFrame
    /\ joined_df = EmptyFrame /\ filtered_df = EmptyFrame
    /\ warnings = 0
    /\ IdleRun /\ IdleCoerce /\ IdleReport

NextReport ==
    \/ BuildDataframes \/ JoinFrames \/ ApplyFilters
    \/ Mkdir \/ WriteCsv \/ RenderHtml \/ WriteHtml \/ WriteAudit

SpecReport == InitReport /\ [][NextReport]_vars

CsvWritten == written.csv = "complete"

\* the row of filtered_df behind the i-th record of the file
FilteredRow(i) == filtered_df.rows[i]

Distinct(col) ==
    Cardinality({ i \in 1..Len(filtered_df.rows) :
                    \A j \in 1..(i - 1) : FilteredRow(j)[col] # FilteredRow(i)[col] })

DiskSteps == {"mkdir", "to_csv", "_render_html", "html write_text", "audit write_text"}

\* C12: the summary has courses = the number of distinct courseInternalId
\* values among the filtered rows, users = the number of distinct userId
\* values and enrollments = the number of filtered rows; with no filtered row,
\* all inputs empty or not, the three counts are zero and nothing but a
\* failing disk operation raises; the audit record's output_sizes carry the
\* same row count and distinct counts.
C12_SummaryCounts ==
    /\ summary # NoSummary =>
          /\ summary.courses = Distinct("courseInternalId")
          /\ summary.users = Distinct("userId")
          /\ summary.enrollments = Len(filtered_df.rows)
          /\ filtered_df.rows = <<>> =>
                summary = [courses |-> 0, users |-> 0, enrollments |-> 0]
    /\ audit # NoAudit =>
          /\ audit.output_sizes.csv_rows = Len(filtered_df.rows)
          /\ audit.output_sizes.unique_courses = Distinct("courseInternalId")
          /\ audit.output_sizes.unique_users = Distinct("userId")
    /\ (pc = "raised" /\ filtered_df.rows = <<>>) => exc.at \in DiskSteps

\* a finished run over two rows of one course and two users
C12_Witness ==
    /\ pc = "returned"
    /\ Len(filtered_df.rows) = 2
    /\ summary = [courses |-> 1, users |-> 2, enrollments |-> 2]
    /\ audit.output_sizes = [csv_rows |-> 2, unique_courses |-> 1, unique_users |-> 2]

(***************************************************************************)
(* The Enrollment constructor on its own: SpecEnrollment.  The role is a   *)
(* recognised role or another word, in several casings, with whitespace    *)
(* around it or without; the record has its userId or lacks it.            *)
(***************************************************************************)
s_Students == <<"S","t","u","d","e","n","t","s">>
s_TA == <<"T","A">>

RoleWords == ALLOWED_ROLES \cup { s_SuperRole, s_student, s_Students, s_TA, <<>> }

RoleStrings ==
    { Pad(c, l, r) : c \in UNION { Casings(w) : w \in RoleWords },
                     l \in 0..MaxPad, r \in 0..MaxPad }

EnrollmentDicts ==
    { [id |-> JStr(<<"e","1">>), userId |-> JStr(s_u1), courseId |-> JStr(s_c1),
       role |-> JStr(role), availability |-> Avail(JBool(TRUE))] : role \in RoleStrings }
    \cup
    { [id |-> JStr(<<"e","1">>), courseId |-> JStr(s_c1),
       role |-> JStr(role), availability |-> Avail(JBool(TRUE))] : role \in RoleStrings }

InitEnrollment ==
    /\ pc = "construct"
    /\ value \in EnrollmentDicts
    /\ result = "unset"
    /\ IdlePipeline

\* a call of Enrollment(**value)
Construct ==
    /\ pc = "construct"
    /\ result' = Enrollment(value)
    /\ warnings' = warnings + WarnUnknownRole(value)
    /\ pc' = "constructed"
    /\ UNCHANGED <<files, args, loadVars, frameVars, joined_df, filtered_df,
                   runVars, value, reportVars, derived>>

NextEnrollment == Construct

SpecEnrollment == InitEnrollment /\ [][NextEnrollment]_vars

Constructed == pc = "constructed"

\* the role string handed to the constructor
GivenRole == value["role"].v

RecognisedRoles ==
    { <<"I","n","s","t","r","u","c","t","o","r">>,
      <<"T","e","a","c","h","i","n","g","A","s","s","i","s","t","a","n","t">>,
      <<"S","t","u","d","e","n","t">>,
      <<"G","r","a","d","e","r">>,
      <<"O","b","s","e","r","v","e","r">> }

\* the same record with a recognised role in place of its own
WithStudentRole == [value EXCEPT !["role"] = JStr(<<"S","t","u","d","e","n","t">>)]

\* C13 as stated: for every role string the record is accepted with its role
\* preserved, the role it holds being the string it was given, and a warning
\* is emitted iff the string given is not one of Instructor,
\* TeachingAssistant, Student, Grader, Observer.
C13_RolePreserved ==
    (Constructed /\ "userId" \in DOMAIN value) =>
        /\ result.ok
        /\ result.val.role = GivenRole
        /\ warnings = 1 <=> GivenRole \notin RecognisedRoles

\* C13: no role string makes the construction fail: a record is accepted
\* iff it is accepted with the role Student in place of its own.  An accepted
\* record holds the role string trimmed of its leading and trailing
\* whitespace, otherwise as given, and exactly one warning is emitted when
\* the trimmed role is not one of Instructor, TeachingAssistant, Student,
\* Grader, Observer, and none when it is.
C13_RoleTrimmedNeverRejected ==
    Constructed =>
        /\ result.ok <=> Enrollment(WithStudentRole).ok
        /\ "userId" \in DOMAIN value => result.ok
        /\ result.ok => result.val.role = Strip(GivenRole)
        /\ warnings = (IF Strip(GivenRole) \in RecognisedRoles THEN 0 ELSE 1)

\* an unrecognised role with whitespace around it: accepted, trimmed, warned of
C13_Witness ==
    /\ Constructed
    /\ GivenRole = <<" ">> \o s_SuperRole \o <<"\t">>
    /\ result.ok
    /\ result.val.role = s_SuperRole
    /\ warnings = 1

(***************************************************************************)
(* Where the derived fields are computed, under SpecJoin                   *)
(***************************************************************************)
Built == pc = "join"

DerivedFields == {"term", "userFullName", "courseLabel"}

\* the courses frame with every term blanked
WithoutTerms(df) ==
    [df EXCEPT !.rows = [i \in 1..Len(df.rows) |-> [df.rows[i] EXCEPT !["term"] = <<>>]]]

\* a row without its term
ButTerm(r) == [c \in (DOMAIN r) \ {"term"} |-> r[c]]

\* C14 as stated: each of userFullName, courseLabel and term is computed
\* once per joined row, after both merges; none is computed on the records
\* of the entities before the join, so that when the join is about to decide
\* which rows match no frame holds a derived value.
C14_DerivedOnlyAfterJoin ==
    /\ Built =>
          /\ derived = NothingDerived
          /\ \A f \in DerivedFields :
                ~HasColumn(courses_df, f) /\ ~HasColumn(users_df, f)
                /\ ~HasColumn(enrollments_df, f)
    /\ Joined =>
          \A f \in DerivedFields :
              derived[f] = ComputedPerRecord(joined_df.rows, "_join_frames")

\* C14: userFullName and courseLabel are computed once per joined row, in
\* _join_frames after both merges, and no frame holds them before.  term is
\* computed once per Course in _build_dataframes, before the join: the courses
\* frame holds it when the join decides which rows match, the second merge
\* carries it into the joined rows, and _join_frames does not compute it
\* again.  The join does not look at it: with every term blanked it gives the
\* same rows but for their term.
C14_TermBeforeJoinOthersAfter ==
    /\ Built =>
          /\ derived.term = ComputedPerRecord(courses, "_build_dataframes")
          /\ derived.userFullName = NotComputed /\ derived.courseLabel = NotComputed
          /\ \A i \in 1..Len(courses_df.rows) :
                courses_df.rows[i].term = Term(courses[i].courseId)
          /\ \A f \in {"userFullName", "courseLabel"} :
                ~HasColumn(courses_df, f) /\ ~HasColumn(users_df, f)
                /\ ~HasColumn(enrollments_df, f)
          /\ LET with == _join_frames(courses_df, users_df, enrollments_df)
                 without == _join_frames(WithoutTerms(courses_df), users_df, enrollments_df)
             IN  /\ with.ok /\ without.ok
                 /\ Len(with.val.rows) = Len(without.val.rows)
                 /\ \A i \in 1..Len(with.val.rows) :
                       ButTerm(with.val.rows[i]) = ButTerm(without.val.rows[i])
    /\ Joined =>
          /\ derived.term = ComputedPerRecord(courses, "_build_dataframes")
          /\ derived.userFullName = ComputedPerRecord(joined_df.rows, "_join_frames")
          /\ derived.courseLabel = ComputedPerRecord(joined_df.rows, "_join_frames")
          /\ HasColumn(joined_df, "term") /\ HasColumn(joined_df, "userFullName")
          /\ HasColumn(joined_df, "courseLabel")
          /\ \A i \in 1..Len(joined_df.rows) :
                LET r == joined_df.rows[i]
                IN  /\ r.term = Term(r.courseId)
                    /\ r.userFullName = Strip(r.given \o <<" ">> \o r.family)
                    /\ r.courseLabel = r.courseId \o LabelSeparator \o r.courseName

\* four joined rows from two courses: the two names computed four times each
\* in _join_frames, the term twice in _build_dataframes
C14_Witness ==
    /\ Joined
    /\ Len(joined_df.rows) = 4
    /\ derived.term = [n |-> 2, at |-> "_build_dataframes"]
    /\ derived.userFullName = [n |-> 4, at |-> "_join_frames"]
    /\ derived.courseLabel = [n |-> 4, at |-> "_join_frames"]
    /\ joined_df.rows[1].term = <<"F","A">>

====
